---- MODULE Spec2Model ----
(***************************************************************************)
(* Model of yukajii-site: the daily MT digest generator                    *)
(* (src/mt_arxiv_digest.py) and the newsletter notifier                    *)
(* (src/send_digest.py).                                                   *)
(*                                                                         *)
(* Conventions.                                                            *)
(*   - A Python Optional is a sequence of length 0 (None) or 1 (the value).*)
(*   - A date string is the sequence of its "-"-separated numeric fields:  *)
(*     "2025-05-20" is <<2025, 5, 20>>, "20250520" is <<20250520>>, and    *)
(*     the empty string is << >>.                                          *)
(*     Fields are written as the format expects them: a year has four    *)
(*     digits, a month or day at most two.                                 *)
(*   - A model reply is a sequence of characters over ReplyAlphabet, where *)
(*     "x" stands for a character that no JSON text holds outside a string *)
(*     literal (such as "?"); quotes, signs, whitespace and the letters of *)
(*     JSON literals are not modelled.                                     *)
(***************************************************************************)
EXTENDS Integers, Sequences, FiniteSets

VARIABLES
    \* ---- digest generator: inputs of one run (argv, environment, clock)
    has_key,        \* "OPENAI_API_KEY" in os.environ
    argv_pos,       \* Optional positional date string
    argv_flag,      \* Optional --date string
    argv_max,       \* Optional --max integer
    env_DATE,       \* Optional DATE environment variable
    today,          \* dt.date.today()
    \* ---- digest generator: program state
    pc,             \* position in main()
    ns_date_flag,   \* Optional date: ns.date_flag after argparse
    max_picks,      \* ns.max_picks
    target_date,    \* Optional date
    papers,         \* list of fetched papers (each paper is its identity)
    select_reply,   \* Optional raw reply of the selection call
    picks,          \* Optional list of integers returned by pick_mt_papers
    preface,        \* Optional list of the papers named in the preface prompt
    md,             \* Optional list of the papers rendered in the Markdown file
    log,            \* Optional record written to the log file
    stages,         \* the stages main() has started so far, in order
    calls,          \* the external requests issued so far, in order
    exit_status,    \* Optional process exit status
    error,          \* the error that ended the run
    \* ---- notifier: inputs of one run and the provider's answers
    n_argc,         \* len(sys.argv)
    n_file_exists,  \* md_path.exists()
    n_token,        \* Optional BUTTONDOWN_TOKEN
    n_stem,         \* date string at the end of the file name's stem
    provider,       \* the answers the provider gives to create / lookup / send
    \* ---- notifier: program state
    n_pc,           \* position in the script
    n_globals,      \* names bound in the module namespace
    n_email_id,     \* Optional draft id
    n_requests,     \* HTTP requests issued so far, in order
    n_exit,         \* Optional process exit status
    n_error         \* the error that ended the run

dvars == <<has_key, argv_pos, argv_flag, argv_max, env_DATE, today, pc,
           ns_date_flag, max_picks, target_date, papers, select_reply, picks,
           preface, md, log, stages, calls, exit_status, error>>
nvars == <<n_argc, n_file_exists, n_token, n_stem, provider, n_pc, n_globals,
           n_email_id, n_requests, n_exit, n_error>>
vars == <<dvars, nvars>>

(***************************************************************************)
(* Bounds of the model and constants of the program.                       *)
(***************************************************************************)
MaxPapers == 2
MaxReplyLen == 5
DEFAULT_MAX_PICKS == 5

None == << >>
Some(v) == <<v>>

(***************************************************************************)
(* Dates: datetime.strptime(s, "%Y-%m-%d").date() and date - timedelta(1). *)
(***************************************************************************)
NoDate == [year |-> 0, month |-> 0, day |-> 0]

IsLeap(y) == (y % 4 = 0 /\ y % 100 # 0) \/ y % 400 = 0

DaysInMonth(y, m) ==
    IF m = 2 THEN (IF IsLeap(y) THEN 29 ELSE 28)
    ELSE IF m \in {4, 6, 9, 11} THEN 30 ELSE 31

\* strptime: the string is matched against the format's pattern (%Y is four
\* digits, %m is 1..12, %d is 1..31, each match as long as the pattern allows),
\* what follows the match must be empty, and the fields must name a calendar
\* day. err is the ValueError raised, whose message holds the whole string
\* only when the pattern does not match.
strptime(s) ==
    IF Len(s) # 3 \/ s[1] \notin 1000..9999 \/ s[2] \notin 1..12 \/ s[3] < 1
    THEN [ok |-> FALSE, date |-> NoDate,
          err |-> "ValueError: time data does not match format"]
    ELSE IF s[3] > 31
    THEN [ok |-> FALSE, date |-> NoDate,
          err |-> "ValueError: unconverted data remains"]
    ELSE IF s[3] > DaysInMonth(s[1], s[2])
    THEN [ok |-> FALSE, date |-> NoDate,
          err |-> "ValueError: day is out of range for month"]
    ELSE [ok |-> TRUE, date |-> [year |-> s[1], month |-> s[2], day |-> s[3]],
          err |-> "none"]

\* The uncaught ValueError of strptime(o[1]), with the string its message names.
StrptimeError(o) ==
    [kind |-> strptime(o[1]).err,
     value |-> IF strptime(o[1]).err = "ValueError: time data does not match format"
               THEN o ELSE None]

\* d - dt.timedelta(days=1)
DayBefore(d) ==
    IF d.day > 1 THEN [d EXCEPT !.day = d.day - 1]
    ELSE IF d.month > 1
         THEN [year |-> d.year, month |-> d.month - 1,
               day |-> DaysInMonth(d.year, d.month - 1)]
         ELSE [year |-> d.year - 1, month |-> 12, day |-> 31]

\* Python truthiness of an Optional[str]: None and "" are falsy.
TruthyStr(o) == o # None /\ o[1] # << >>

NoError == [kind |-> "none", value |-> None]

\* Variant: the DATE environment variable is consulted before the flag.
resolve_target_date_env_first(cli_pos, cli_flag, env_var) ==
    IF TruthyStr(cli_pos)
    THEN IF strptime(cli_pos[1]).ok
         THEN [raised |-> NoError, date |-> strptime(cli_pos[1]).date]
         ELSE [raised |-> StrptimeError(cli_pos), date |-> NoDate]
    ELSE IF TruthyStr(env_var)
    THEN IF strptime(env_var[1]).ok
         THEN [raised |-> NoError, date |-> strptime(env_var[1]).date]
         ELSE [raised |-> [kind |-> "SystemExit: Bad DATE env-var format",
                           value |-> env_var],
               date |-> NoDate]
    ELSE IF cli_flag # None
    THEN [raised |-> NoError, date |-> cli_flag[1]]
    ELSE [raised |-> NoError, date |-> DayBefore(today)]

\* Variant: a malformed DATE environment variable falls back to yesterday.
resolve_target_date_lenient(cli_pos, cli_flag, env_var) ==
    IF TruthyStr(cli_pos)
    THEN IF strptime(cli_pos[1]).ok
         THEN [raised |-> NoError, date |-> strptime(cli_pos[1]).date]
         ELSE [raised |-> StrptimeError(cli_pos), date |-> NoDate]
    ELSE IF cli_flag # None
    THEN [raised |-> NoError, date |-> cli_flag[1]]
    ELSE IF TruthyStr(env_var) /\ strptime(env_var[1]).ok
    THEN [raised |-> NoError, date |-> strptime(env_var[1]).date]
    ELSE [raised |-> NoError, date |-> DayBefore(today)]

\* resolve_target_date(cli_pos, cli_flag, env_var): the date returned, or the
\* exception raised together with the string it names.
resolve_target_date(cli_pos, cli_flag, env_var) ==
    IF TruthyStr(cli_pos)
    THEN IF strptime(cli_pos[1]).ok
         THEN [raised |-> NoError, date |-> strptime(cli_pos[1]).date]
         ELSE [raised |-> StrptimeError(cli_pos), date |-> NoDate]
    ELSE IF cli_flag # None
    THEN [raised |-> NoError, date |-> cli_flag[1]]
    ELSE IF TruthyStr(env_var)
    THEN IF strptime(env_var[1]).ok
         THEN [raised |-> NoError, date |-> strptime(env_var[1]).date]
         ELSE [raised |-> [kind |-> "SystemExit: Bad DATE env-var format",
                           value |-> env_var],
               date |-> NoDate]
    ELSE [raised |-> NoError, date |-> DayBefore(today)]

(***************************************************************************)
(* Selection reply parsing: re.search(r"\[.*?\]", reply, re.S).group() and *)
(* json.loads.                                                             *)
(***************************************************************************)
Digits == {"0", "1", "2"}
ReplyAlphabet == {"x", "[", "]", ","} \cup Digits
Replies == UNION {[1..k -> ReplyAlphabet] : k \in 0..MaxReplyLen}

DigitValue(c) == IF c = "0" THEN 0 ELSE IF c = "1" THEN 1 ELSE 2

\* Least index >= from at which s holds c, or 0.
IndexOf(s, c, from) ==
    IF \E i \in from..Len(s) : s[i] = c
    THEN CHOOSE i \in from..Len(s) :
            s[i] = c /\ \A j \in from..(i - 1) : s[j] # c
    ELSE 0

\* The leftmost, shortest match of \[.*?\] (re.S: "." matches anything).
re_search(reply) ==
    LET a == IndexOf(reply, "[", 1)
        b == IF a = 0 THEN 0 ELSE IndexOf(reply, "]", a + 1)
    IN IF b = 0 THEN None ELSE Some(SubSeq(reply, a, b))

RECURSIVE SplitCommas(_)
SplitCommas(s) ==
    LET c == IndexOf(s, ",", 1)
    IN IF c = 0 THEN <<s>>
       ELSE <<SubSeq(s, 1, c - 1)>> \o SplitCommas(SubSeq(s, c + 1, Len(s)))

\* A JSON integer literal: digits only, no leading zero.
IsNumber(t) ==
    /\ Len(t) >= 1
    /\ \A i \in 1..Len(t) : t[i] \in Digits
    /\ (Len(t) > 1 => t[1] # "0")

RECURSIVE NumberValue(_)
NumberValue(t) ==
    IF t = << >> THEN 0
    ELSE 10 * NumberValue(SubSeq(t, 1, Len(t) - 1)) + DigitValue(t[Len(t)])

\* json.loads of a text that starts with "[" and ends with its first "]".
json_loads(text) ==
    LET body == SubSeq(text, 2, Len(text) - 1)
        items == SplitCommas(body)
    IN IF body = << >> THEN [ok |-> TRUE, value |-> << >>]
       ELSE IF \A i \in 1..Len(items) : IsNumber(items[i])
       THEN [ok |-> TRUE,
             value |-> [i \in 1..Len(items) |-> NumberValue(items[i])]]
       ELSE [ok |-> FALSE, value |-> << >>]

\* Variant: a reply that cannot be parsed yields the empty selection.
parse_selection_fallback(reply) ==
    LET m == re_search(reply)
    IN IF m = None \/ ~json_loads(m[1]).ok
       THEN [raised |-> NoError, picks |-> << >>]
       ELSE [raised |-> NoError, picks |-> json_loads(m[1]).value]

\* Lines 88-91: the try block and its except clause.
parse_selection(reply) ==
    LET m == re_search(reply)
    IN IF m = None
       THEN [raised |-> [kind |-> "RuntimeError: Could not parse selection reply",
                         value |-> Some("AttributeError")],
             picks |-> << >>]
       ELSE IF ~json_loads(m[1]).ok
       THEN [raised |-> [kind |-> "RuntimeError: Could not parse selection reply",
                         value |-> Some("JSONDecodeError")],
             picks |-> << >>]
       ELSE [raised |-> NoError, picks |-> json_loads(m[1]).value]

(***************************************************************************)
(* Python list indexing: lst[k] for -len <= k < len, else IndexError.      *)
(***************************************************************************)
InPyRange(lst, k) == -Len(lst) <= k /\ k < Len(lst)
PyIndex(lst, k) == IF k >= 0 THEN lst[k + 1] ELSE lst[Len(lst) + k + 1]

\* [papers[i-1] for i in picks]
ChosenOk(ps, pk) == \A j \in 1..Len(pk) : InPyRange(ps, pk[j] - 1)
Chosen(ps, pk) == [j \in 1..Len(pk) |-> PyIndex(ps, pk[j] - 1)]

(***************************************************************************)
(* The digest generator: main() of mt_arxiv_digest.py, one action per      *)
(* stage.                                                                  *)
(***************************************************************************)
inputs == <<has_key, argv_pos, argv_flag, argv_max, env_DATE, today>>

\* The process ends with this status; err is NoError on a normal return.
Exit(status, err) ==
    /\ pc' = "exit"
    /\ exit_status' = Some(status)
    /\ error' = err

Continue(next) ==
    /\ pc' = next
    /\ UNCHANGED <<exit_status, error>>

\* Lines 158-159.
CheckKey ==
    /\ pc = "start"
    /\ IF has_key
       THEN Continue("parse_args")
       ELSE Exit(1, [kind |-> "SystemExit: OPENAI_API_KEY env var missing",
                     value |-> None])
    /\ UNCHANGED <<inputs, ns_date_flag, max_picks, target_date, papers,
                   select_reply, picks, preface, md, log, stages, calls>>
    /\ UNCHANGED nvars

\* Lines 161-167: argparse converts --date with strptime and exits with
\* status 2 when the conversion raises.
ParseArgs ==
    /\ pc = "parse_args"
    /\ IF argv_flag # None /\ ~strptime(argv_flag[1]).ok
       THEN /\ Exit(2, [kind |-> "argparse: argument --date: invalid value",
                        value |-> argv_flag])
            /\ UNCHANGED <<ns_date_flag, max_picks>>
       ELSE /\ ns_date_flag' = IF argv_flag = None THEN None
                               ELSE Some(strptime(argv_flag[1]).date)
            /\ max_picks' = IF argv_max = None THEN DEFAULT_MAX_PICKS
                            ELSE argv_max[1]
            /\ Continue("resolve")
    /\ UNCHANGED <<inputs, target_date, papers, select_reply, picks, preface,
                   md, log, stages, calls>>
    /\ UNCHANGED nvars

\* Line 169.
ResolveDate ==
    /\ pc = "resolve"
    /\ LET r == resolve_target_date(argv_pos, ns_date_flag, env_DATE)
       IN IF r.raised = NoError
          THEN /\ target_date' = Some(r.date)
               /\ Continue("fetch")
          ELSE /\ Exit(1, r.raised)
               /\ UNCHANGED target_date
    /\ UNCHANGED <<inputs, ns_date_flag, max_picks, papers, select_reply,
                   picks, preface, md, log, stages, calls>>
    /\ UNCHANGED nvars

\* Variant: the empty batch is not short-circuited.
Fetch_NoEmptyCheck ==
    /\ pc = "fetch"
    /\ stages' = Append(stages, "fetch")
    /\ calls' = Append(calls, "arxiv")
    /\ \/ /\ Exit(1, [kind |-> "arxiv error", value |-> None])
          /\ UNCHANGED papers
       \/ \E n \in 0..MaxPapers :
             /\ papers' = [i \in 1..n |-> i]
             /\ Continue("select")
    /\ UNCHANGED <<inputs, ns_date_flag, max_picks, target_date, select_reply,
                   picks, preface, md, log>>
    /\ UNCHANGED nvars

\* Lines 171-174 and fetch_cscl: the index answers with 0..MaxPapers papers,
\* or the query raises.
Fetch ==
    /\ pc = "fetch"
    /\ stages' = Append(stages, "fetch")
    /\ calls' = Append(calls, "arxiv")
    /\ \/ /\ Exit(1, [kind |-> "arxiv error", value |-> None])
          /\ UNCHANGED papers
       \/ \E n \in 0..MaxPapers :
             /\ papers' = [i \in 1..n |-> i]
             /\ IF n = 0 THEN Exit(0, NoError) ELSE Continue("select")
    /\ UNCHANGED <<inputs, ns_date_flag, max_picks, target_date, select_reply,
                   picks, preface, md, log>>
    /\ UNCHANGED nvars

\* Line 176 and pick_mt_papers: one chat completion, then the reply is parsed.
PickMtPapers ==
    /\ pc = "select"
    /\ stages' = Append(stages, "select")
    /\ calls' = Append(calls, "openai:select")
    /\ \/ /\ Exit(1, [kind |-> "openai error", value |-> None])
          /\ UNCHANGED <<select_reply, picks>>
       \/ \E reply \in Replies :
             LET r == parse_selection(reply)
             IN /\ select_reply' = Some(reply)
                /\ IF r.raised = NoError
                   THEN /\ picks' = Some(r.picks)
                        /\ Continue("preface")
                   ELSE /\ Exit(1, r.raised)
                        /\ UNCHANGED picks
    /\ UNCHANGED <<inputs, ns_date_flag, max_picks, target_date, papers,
                   preface, md, log>>
    /\ UNCHANGED nvars

\* Line 178 and draft_preface: line 99 indexes papers with every pick before
\* the chat completion is requested.
DraftPreface ==
    /\ pc = "preface"
    /\ stages' = Append(stages, "preface")
    /\ IF ~ChosenOk(papers, picks[1])
       THEN /\ Exit(1, [kind |-> "IndexError", value |-> Some("draft_preface")])
            /\ UNCHANGED <<preface, calls>>
       ELSE /\ calls' = Append(calls, "openai:preface")
            /\ \/ /\ Exit(1, [kind |-> "openai error", value |-> None])
                  /\ UNCHANGED preface
               \/ /\ preface' = Some(Chosen(papers, picks[1]))
                  /\ Continue("render")
    /\ UNCHANGED <<inputs, ns_date_flag, max_picks, target_date, papers,
                   select_reply, picks, md, log>>
    /\ UNCHANGED nvars

\* Variant: a failed write of the Markdown file does not stop the run.
WriteMd_Swallow ==
    /\ pc = "render"
    /\ stages' = Append(stages, "render")
    /\ IF ~ChosenOk(papers, picks[1])
       THEN /\ Exit(1, [kind |-> "IndexError", value |-> Some("write_md")])
            /\ UNCHANGED md
       ELSE \/ /\ Continue("log")
               /\ UNCHANGED md
            \/ /\ md' = Some(Chosen(papers, picks[1]))
               /\ Continue("log")
    /\ UNCHANGED <<inputs, ns_date_flag, max_picks, target_date, papers,
                   select_reply, picks, preface, log, calls>>
    /\ UNCHANGED nvars

\* Line 180 and write_md: line 128 indexes papers with every pick, then the
\* file is written.
WriteMd ==
    /\ pc = "render"
    /\ stages' = Append(stages, "render")
    /\ IF ~ChosenOk(papers, picks[1])
       THEN /\ Exit(1, [kind |-> "IndexError", value |-> Some("write_md")])
            /\ UNCHANGED md
       ELSE \/ /\ Exit(1, [kind |-> "OSError", value |-> None])
               /\ UNCHANGED md
            \/ /\ md' = Some(Chosen(papers, picks[1]))
               /\ Continue("log")
    /\ UNCHANGED <<inputs, ns_date_flag, max_picks, target_date, papers,
                   select_reply, picks, preface, log, calls>>
    /\ UNCHANGED nvars

\* Lines 182-200 and write_log.
WriteLog ==
    /\ pc = "log"
    /\ stages' = Append(stages, "log")
    /\ \/ /\ Exit(1, [kind |-> "OSError", value |-> None])
          /\ UNCHANGED log
       \/ /\ log' = Some([total_papers |-> Len(papers),
                          picked_indices |-> picks[1],
                          selection_reply_raw |-> select_reply[1]])
          /\ Exit(0, NoError)
    /\ UNCHANGED <<inputs, ns_date_flag, max_picks, target_date, papers,
                   select_reply, picks, preface, md, calls>>
    /\ UNCHANGED nvars

(***************************************************************************)
(* The notifier: send_digest.py, a script run top to bottom.               *)
(***************************************************************************)
ninputs == <<n_argc, n_file_exists, n_token, n_stem, provider>>

\* die(msg), or an uncaught exception: the process ends with this status.
NExit(status, err) ==
    /\ n_pc' = "exit"
    /\ n_exit' = Some(status)
    /\ n_error' = err

NContinue(next) ==
    /\ n_pc' = next
    /\ UNCHANGED <<n_exit, n_error>>

\* Lines 26 and 33: "import datetime" is rebound by "from datetime import
\* datetime", so the global name datetime is the class; the class has
\* strptime and utcnow and no attribute datetime.
DatetimeAttrs == {"strptime", "utcnow"}

\* Lines 51-52.
N_CheckArgs ==
    /\ n_pc = "args"
    /\ IF n_argc # 2
       THEN NExit(1, [kind |-> "die: Usage", value |-> None])
       ELSE NContinue("file")
    /\ UNCHANGED <<ninputs, n_globals, n_email_id, n_requests>>
    /\ UNCHANGED dvars

\* Lines 54-56.
N_CheckFile ==
    /\ n_pc = "file"
    /\ IF ~n_file_exists
       THEN NExit(1, [kind |-> "die: File not found", value |-> None])
       ELSE NContinue("token")
    /\ UNCHANGED <<ninputs, n_globals, n_email_id, n_requests>>
    /\ UNCHANGED dvars

\* Lines 58-60: "if not TOKEN" is true of None and of the empty string.
N_CheckToken ==
    /\ n_pc = "token"
    /\ IF n_token = None \/ n_token[1] = ""
       THEN NExit(1, [kind |-> "die: Env var BUTTONDOWN_TOKEN is missing",
                      value |-> None])
       ELSE NContinue("subject")
    /\ UNCHANGED <<ninputs, n_globals, n_email_id, n_requests>>
    /\ UNCHANGED dvars

\* Lines 62-72: strptime of the last ten characters of the stem is not
\* guarded; the names bound on success are lower-case.
N_Subject ==
    /\ n_pc = "subject"
    /\ IF strptime(n_stem).ok
       THEN /\ n_globals' = n_globals \cup
                   {"subject_date", "date_obj", "pretty", "subject", "headers"}
            /\ NContinue("payload")
       ELSE /\ NExit(1, StrptimeError(Some(n_stem)))
            /\ UNCHANGED n_globals
    /\ UNCHANGED <<ninputs, n_email_id, n_requests>>
    /\ UNCHANGED dvars

\* Lines 77-84: the payload literal reads the global name SUBJECT first.
N_BuildPayload ==
    /\ n_pc = "payload"
    /\ IF "SUBJECT" \in n_globals
       THEN /\ n_globals' = n_globals \cup {"payload"}
            /\ NContinue("create")
       ELSE /\ NExit(1, [kind |-> "NameError", value |-> Some("SUBJECT")])
            /\ UNCHANGED n_globals
    /\ UNCHANGED <<ninputs, n_email_id, n_requests>>
    /\ UNCHANGED dvars

\* Lines 86-107: create the draft, or look the existing one up.
N_CreateDraft ==
    /\ n_pc = "create"
    /\ IF provider.create = "ok"
       THEN /\ n_requests' = Append(n_requests, "POST /emails")
            /\ n_email_id' = Some("created")
            /\ NContinue("send")
       ELSE IF provider.create = "email_duplicate"
       THEN /\ n_requests' = n_requests \o
                   <<"POST /emails", "GET /emails?state=draft&search">>
            /\ IF provider.lookup = "found"
               THEN /\ n_email_id' = Some("existing")
                    /\ NContinue("send")
               ELSE /\ UNCHANGED n_email_id
                    /\ IF provider.lookup = "http_error"
                       THEN NExit(1, [kind |-> "HTTPError", value |-> None])
                       ELSE NExit(1, [kind |-> "die: Duplicate reported but existing draft not found",
                                      value |-> None])
       ELSE /\ n_requests' = Append(n_requests, "POST /emails")
            /\ UNCHANGED n_email_id
            /\ NExit(1, [kind |-> "die: Draft upload failed", value |-> None])
    /\ UNCHANGED <<ninputs, n_globals>>
    /\ UNCHANGED dvars

\* Lines 112-129: send the draft; line 129 reads datetime.datetime.
N_SendDraft ==
    /\ n_pc = "send"
    /\ n_requests' = Append(n_requests, "POST /emails/{id}/send-draft")
    /\ IF provider.send = "ok"
       THEN IF "datetime" \in DatetimeAttrs
            THEN NExit(0, NoError)
            ELSE NExit(1, [kind |-> "AttributeError", value |-> Some("datetime")])
       ELSE IF provider.send = "email_duplicate_400"
       THEN NExit(0, NoError)
       ELSE NExit(1, [kind |-> "die: Send failed", value |-> None])
    /\ UNCHANGED <<ninputs, n_globals, n_email_id>>
    /\ UNCHANGED dvars

(***************************************************************************)
(* Initial states and specifications.                                      *)
(***************************************************************************)
\* Date strings a run may be given: empty, well-formed, and malformed ones.
PosStrings == {<< >>, <<2025, 5, 20>>, <<2025, 13, 1>>, <<2025, 2, 30>>,
               <<2025, 5, 32>>}
FlagStrings == {<< >>, <<2025, 5, 21>>, <<20250521>>}
EnvStrings == {<< >>, <<2025, 5, 22>>, <<2025, 2, 30>>}
Clock == {[year |-> 2025, month |-> 5, day |-> 23],
          [year |-> 2025, month |-> 3, day |-> 1]}
MaxArgs == {None, Some(1)}

DigestStart ==
    /\ pc = "start"
    /\ ns_date_flag = None
    /\ max_picks = DEFAULT_MAX_PICKS
    /\ target_date = None
    /\ papers = << >>
    /\ select_reply = None
    /\ picks = None
    /\ preface = None
    /\ md = None
    /\ log = None
    /\ stages = << >>
    /\ calls = << >>
    /\ exit_status = None
    /\ error = NoError

NotifierStart ==
    /\ n_pc = "args"
    /\ n_globals = {"BTN_API", "TIMEOUT", "die", "datetime"}
    /\ n_email_id = None
    /\ n_requests = << >>
    /\ n_exit = None
    /\ n_error = NoError

\* One notifier invocation that is not run (the other program is idle).
NotifierIdle ==
    /\ n_argc = 2
    /\ n_file_exists = TRUE
    /\ n_token = Some("token")
    /\ n_stem = <<2025, 5, 20>>
    /\ provider = [create |-> "ok", lookup |-> "found", send |-> "ok"]
    /\ NotifierStart

DigestIdle ==
    /\ has_key = TRUE
    /\ argv_pos = Some(<<2025, 5, 20>>)
    /\ argv_flag = None
    /\ argv_max = None
    /\ env_DATE = None
    /\ today = [year |-> 2025, month |-> 5, day |-> 23]
    /\ DigestStart

\* The pipeline: a run given a well-formed positional date.
Init ==
    /\ has_key \in BOOLEAN
    /\ argv_pos = Some(<<2025, 5, 20>>)
    /\ argv_flag = None
    /\ argv_max \in MaxArgs
    /\ env_DATE = None
    /\ today = [year |-> 2025, month |-> 5, day |-> 23]
    /\ DigestStart
    /\ NotifierIdle

Next ==
    \/ CheckKey
    \/ ParseArgs
    \/ ResolveDate
    \/ Fetch
    \/ PickMtPapers
    \/ DraftPreface
    \/ WriteMd
    \/ WriteLog

Spec == Init /\ [][Next]_vars

\* Date resolution: every combination of date sources, up to the fetch.
InitDate ==
    /\ has_key \in BOOLEAN
    /\ argv_pos \in {None} \cup {Some(s) : s \in PosStrings}
    /\ argv_flag \in {None} \cup {Some(s) : s \in FlagStrings}
    /\ argv_max = None
    /\ env_DATE \in {None} \cup {Some(s) : s \in EnvStrings}
    /\ today \in Clock
    /\ DigestStart
    /\ NotifierIdle

NextDate ==
    \/ CheckKey
    \/ ParseArgs
    \/ ResolveDate
    \/ Fetch

SpecDate == InitDate /\ [][NextDate]_vars

\* The notifier: every invocation and every behaviour of the provider.
InitNotifier ==
    /\ n_argc \in 1..3
    /\ n_file_exists \in BOOLEAN
    /\ n_token \in {None, Some(""), Some("token")}
    /\ n_stem \in {<<2025, 5, 19>>, <<20250519>>}
    /\ provider \in [create : {"ok", "email_duplicate", "error"},
                     lookup : {"found", "empty", "http_error"},
                     send : {"ok", "email_duplicate_400", "error"}]
    /\ NotifierStart
    /\ DigestIdle

NextNotifier ==
    \/ N_CheckArgs
    \/ N_CheckFile
    \/ N_CheckToken
    \/ N_Subject
    \/ N_BuildPayload

SpecNotifier == InitNotifier /\ [][NextNotifier]_vars

(***************************************************************************)
(* Properties of the digest pipeline (checked under Spec).                 *)
(***************************************************************************)
InRange(i) == i \in 1..Len(papers)

\* C1: the selection pick_mt_papers returns, which draft_preface, write_md
\* and the run log consume, contains only indices in 1..len(papers).
C1_SelectionInRange ==
    picks # None => \A j \in 1..Len(picks[1]) : InRange(picks[1][j])

\* C2: the selection pick_mt_papers returns has at most max_picks entries.
C2_AtMostMaxPicks ==
    picks # None => Len(picks[1]) <= max_picks

\* What "a bracketed array" and "decodes as JSON" mean, stated on the text.
HasBracketedArray(r) ==
    \E i, j \in 1..Len(r) : i < j /\ r[i] = "[" /\ r[j] = "]"

IsFirstBracketed(r, i, j) ==
    /\ i < j /\ r[i] = "[" /\ r[j] = "]"
    /\ \A k \in 1..(i - 1) : r[k] # "["
    /\ \A k \in (i + 1)..(j - 1) : r[k] # "]"

\* t = "[" body "]" is a JSON array of non-negative integers.
IsJsonIntArray(t) ==
    LET n == Len(t) - 2
        b == SubSeq(t, 2, Len(t) - 1)
    IN /\ \A k \in 1..n : b[k] \in Digits \cup {","}
       /\ (n > 0 => b[1] # "," /\ b[n] # ",")
       /\ \A k \in 1..(n - 1) : ~(b[k] = "," /\ b[k + 1] = ",")
       /\ \A k \in 1..(n - 1) :
            (b[k] = "0" /\ (k = 1 \/ b[k - 1] = ",")) => b[k + 1] = ","

Unparseable(r) ==
    \/ ~HasBracketedArray(r)
    \/ \E i, j \in 1..Len(r) :
          IsFirstBracketed(r, i, j) /\ ~IsJsonIntArray(SubSeq(r, i, j))

\* C3: when the reply holds no bracketed array, or its first bracketed
\* substring does not decode as JSON, pick_mt_papers raises the dedicated
\* "Could not parse selection reply" error, the run aborts with status 1 and
\* no selection, no preface call is made and no Markdown or log is written.
C3_ParseFailureAborts ==
    (select_reply # None /\ Unparseable(select_reply[1])) =>
        /\ pc = "exit"
        /\ exit_status = Some(1)
        /\ error.kind = "RuntimeError: Could not parse selection reply"
        /\ picks = None
        /\ stages = <<"fetch", "select">>
        /\ calls = <<"arxiv", "openai:select">>
        /\ preface = None /\ md = None /\ log = None

C3_Witness ==
    /\ select_reply # None
    /\ HasBracketedArray(select_reply[1])
    /\ Unparseable(select_reply[1])
    /\ pc = "exit"

HasOutOfRangePick ==
    picks # None /\ \E j \in 1..Len(picks[1]) : ~InRange(picks[1][j])

\* C4: whenever the parsed selection holds an index outside 1..len(papers),
\* the run fails with an IndexError raised where papers is indexed (unless an
\* external call failed first); it never completes with a digest in which a
\* paper was dropped or substituted.
C4_OutOfRangeFails ==
    /\ HasOutOfRangePick => md = None /\ log = None
    /\ (HasOutOfRangePick /\ pc = "exit") =>
          /\ exit_status = Some(1)
          /\ error.kind \in {"IndexError", "openai error", "OSError"}

FetchedNothing ==
    /\ "fetch" \in {stages[k] : k \in 1..Len(stages)}
    /\ error.kind # "arxiv error"
    /\ papers = << >>

\* C5: when the fetch returns zero papers, the run makes no selection call
\* and no preface call, writes no Markdown and no log, and ends with status 0.
C5_EmptyBatchExitsClean ==
    FetchedNothing =>
        /\ pc = "exit"
        /\ exit_status = Some(0)
        /\ stages = <<"fetch">>
        /\ calls = <<"arxiv">>
        /\ select_reply = None /\ picks = None /\ preface = None
        /\ md = None /\ log = None

C5_Witness == FetchedNothing /\ pc = "exit"

Pipeline == <<"fetch", "select", "preface", "render", "log">>

StagesInOrder ==
    /\ Len(stages) <= Len(Pipeline)
    /\ stages = SubSeq(Pipeline, 1, Len(stages))

\* A stage has started only if every earlier stage left its result.
EarlierStagesCompleted ==
    /\ (pc # "exit" => error = NoError /\ exit_status = None)
    /\ (Len(stages) >= 1 => target_date # None)
    /\ (Len(stages) >= 2 => papers # << >>)
    /\ (Len(stages) >= 3 => picks # None)
    /\ (Len(stages) >= 4 => preface # None)
    /\ (Len(stages) >= 5 => md # None)

CompletedWithBoth ==
    /\ exit_status = Some(0) /\ error = NoError
    /\ stages = Pipeline
    /\ md # None /\ log # None

AbortedAtFirstFailure ==
    /\ exit_status \in {Some(1), Some(2)}
    /\ error # NoError
    /\ log = None

EndedOnEmptyBatch ==
    /\ exit_status = Some(0) /\ error = NoError
    /\ stages = <<"fetch">> /\ papers = << >>
    /\ md = None /\ log = None

\* C10 as stated: the stages run in the order fetch, select, preface, render,
\* log, each at most once, each only after the earlier ones completed, and a
\* run either completes with both artifacts written or aborts at the first
\* failing stage.
C10_CompleteOrAbort ==
    /\ StagesInOrder
    /\ EarlierStagesCompleted
    /\ (pc = "exit" => CompletedWithBoth \/ AbortedAtFirstFailure)

\* C10 amended: as above, with the third way a run ends: the fetch returned
\* no paper and the run ends successfully with no artifact.
C10_CompleteAbortOrEmpty ==
    /\ StagesInOrder
    /\ EarlierStagesCompleted
    /\ (pc = "exit" =>
            CompletedWithBoth \/ AbortedAtFirstFailure \/ EndedOnEmptyBatch)

C10_Witness == pc = "exit" /\ CompletedWithBoth

(***************************************************************************)
(* Properties of date resolution (checked under SpecDate).                 *)
(***************************************************************************)
\* The value of a date string, read field by field.
DateOf(s) ==
    IF Len(s) = 3 THEN [year |-> s[1], month |-> s[2], day |-> s[3]]
    ELSE NoDate

MonthLengths(y) ==
    <<31, IF IsLeap(y) THEN 29 ELSE 28, 31, 30, 31, 30, 31, 31, 30, 31, 30, 31>>

MatchesFormat(s) ==
    /\ Len(s) = 3
    /\ s[1] >= 1000 /\ s[1] <= 9999
    /\ s[2] >= 1 /\ s[2] <= 12
    /\ s[3] >= 1 /\ s[3] <= MonthLengths(s[1])[s[2]]

NextDay(d) ==
    IF d.day < MonthLengths(d.year)[d.month]
    THEN [d EXCEPT !.day = d.day + 1]
    ELSE IF d.month < 12
         THEN [year |-> d.year, month |-> d.month + 1, day |-> 1]
         ELSE [year |-> d.year + 1, month |-> 1, day |-> 1]

Given(o) == o # None
NonEmpty(o) == o # None /\ o[1] # << >>

\* C6 as stated: the resolved date is the value of the highest-precedence
\* source that is given: positional, else --date, else DATE, else yesterday.
C6_PrecedenceGiven ==
    target_date # None =>
        IF Given(argv_pos) THEN target_date[1] = DateOf(argv_pos[1])
        ELSE IF Given(argv_flag) THEN target_date[1] = DateOf(argv_flag[1])
        ELSE IF Given(env_DATE) THEN target_date[1] = DateOf(env_DATE[1])
        ELSE NextDay(target_date[1]) = today

\* C6 amended: the same precedence, where a positional argument or a DATE
\* variable that is the empty string counts as absent.
C6_PrecedenceNonEmpty ==
    target_date # None =>
        IF NonEmpty(argv_pos) THEN target_date[1] = DateOf(argv_pos[1])
        ELSE IF Given(argv_flag) THEN target_date[1] = DateOf(argv_flag[1])
        ELSE IF NonEmpty(env_DATE) THEN target_date[1] = DateOf(env_DATE[1])
        ELSE NextDay(target_date[1]) = today

C6_Witness ==
    /\ argv_pos = Some(<<2025, 5, 20>>)
    /\ argv_flag = Some(<<2025, 5, 21>>)
    /\ env_DATE = Some(<<2025, 5, 22>>)
    /\ target_date = Some([year |-> 2025, month |-> 5, day |-> 20])

Malformed(o) == Given(o) /\ ~MatchesFormat(o[1])

InPrologue == pc \in {"start", "parse_args", "resolve"}

ValueErrorKinds ==
    {"ValueError: time data does not match format",
     "ValueError: unconverted data remains",
     "ValueError: day is out of range for month"}

DateErrorKinds ==
    ValueErrorKinds \cup {"argparse: argument --date: invalid value",
                          "SystemExit: Bad DATE env-var format"}

\* The run ended before any fetch with a nonzero status and a date error.
Rejected ==
    /\ pc = "exit"
    /\ exit_status \in {Some(1), Some(2)}
    /\ error.kind \in DateErrorKinds
    /\ stages = << >> /\ calls = << >>

\* ... whose message names the string o.
RejectedNaming(o) == Rejected /\ error.value = o

\* C7 as stated (with the API key present, and counting an empty string as
\* not supplied): whenever a supplied date string is malformed, the run ends
\* before any fetch with a nonzero status and a message naming a malformed
\* value; in particular a malformed DATE always has this effect.
C7_AnyMalformedRejected ==
    LET Bad(o) == NonEmpty(o) /\ Malformed(o)
    IN (has_key /\ (Bad(argv_pos) \/ Bad(argv_flag) \/ Bad(env_DATE))) =>
          \/ InPrologue
          \/ \E o \in {argv_pos, argv_flag, env_DATE} :
                Malformed(o) /\ RejectedNaming(o)

\* The malformed string the code reads: a malformed --date (argparse converts
\* it whatever else is given), else a malformed non-empty positional, else,
\* with no non-empty positional and no --date, a malformed non-empty DATE.
OffendingRead ==
    IF Malformed(argv_flag) THEN argv_flag
    ELSE IF NonEmpty(argv_pos)
         THEN (IF Malformed(argv_pos) THEN argv_pos ELSE None)
    ELSE IF Given(argv_flag) THEN None
    ELSE IF NonEmpty(env_DATE) /\ Malformed(env_DATE) THEN env_DATE
    ELSE None

\* No prefix of the string matches the pattern of the format: it has not
\* three fields, or its year or month is out of range, or its day is zero
\* (2025-02-30 and 2025-05-32 both have a matching prefix).
NoPrefixMatches(s) ==
    \/ Len(s) # 3
    \/ ~(s[1] >= 1000 /\ s[1] <= 9999)
    \/ ~(s[2] >= 1 /\ s[2] <= 12)
    \/ s[3] = 0

\* C7 amended: with the API key present, whenever the date string the code
\* reads is malformed, the run ends before any fetch with a nonzero status and
\* a date error: status 2 naming the --date value, status 1 naming the DATE
\* value, or an uncaught ValueError (status 1) for the positional argument,
\* whose message names the value when no prefix of the value matches the
\* pattern.
C7_ReadMalformedRejected ==
    (has_key /\ OffendingRead # None) =>
        \/ InPrologue
        \/ /\ OffendingRead = argv_flag /\ Malformed(argv_flag)
           /\ RejectedNaming(argv_flag) /\ exit_status = Some(2)
        \/ /\ ~Malformed(argv_flag) /\ OffendingRead = argv_pos
           /\ Rejected /\ exit_status = Some(1)
           /\ error.kind \in ValueErrorKinds
           /\ error.value = IF NoPrefixMatches(argv_pos[1]) THEN argv_pos ELSE None
        \/ /\ ~Malformed(argv_flag) /\ ~NonEmpty(argv_pos)
           /\ OffendingRead = env_DATE
           /\ RejectedNaming(env_DATE) /\ exit_status = Some(1)
           /\ error.kind = "SystemExit: Bad DATE env-var format"

C7_Witness ==
    /\ ~NonEmpty(argv_pos) /\ argv_flag = None
    /\ env_DATE = Some(<<2025, 2, 30>>)
    /\ RejectedNaming(env_DATE)

(***************************************************************************)
(* Properties of the notifier (checked under SpecNotifier).                *)
(***************************************************************************)
\* An invocation that gets as far as the draft upload: one argument, an
\* existing file whose name ends in a date, and a token.
ValidInvocation ==
    /\ n_argc = 2
    /\ n_file_exists
    /\ n_token # None /\ n_token[1] # ""
    /\ MatchesFormat(n_stem)

SendIssued ==
    \E k \in 1..Len(n_requests) : n_requests[k] = "POST /emails/{id}/send-draft"

\* C8: when draft-create is answered with email_duplicate and the lookup by
\* subject finds the draft, the run issues send-draft for the found id; and
\* send-draft is never issued without a draft id.
C8_DuplicateDraftRecovered ==
    /\ SendIssued => n_email_id # None
    /\ (/\ n_pc = "exit"
        /\ ValidInvocation
        /\ provider.create = "email_duplicate"
        /\ provider.lookup = "found") =>
            (n_email_id = Some("existing") /\ SendIssued)

DraftIdObtainable ==
    \/ provider.create = "ok"
    \/ provider.create = "email_duplicate" /\ provider.lookup = "found"

\* C9: the exit status is 0 exactly when send-draft succeeded or was answered
\* with a duplicate, and 1 on every other outcome.
C9_ExitStatus ==
    n_pc = "exit" =>
        /\ n_exit \in {Some(0), Some(1)}
        /\ n_exit = Some(0) <=>
              /\ ValidInvocation
              /\ DraftIdObtainable
              /\ provider.send \in {"ok", "email_duplicate_400"}

====
